---- MODULE Spec2Model ----
(***************************************************************************)
(* A model of brainrust (src/main.rs): the parser that turns program text  *)
(* into a Vec<Op>, the two Tape implementations (SimpleTape and            *)
(* CircularTape) and the execute loop.                                     *)
(*                                                                         *)
(* Indices are 0-based as in the Rust source; TLA+ sequences are 1-based,  *)
(* so element k of a Vec v is v[k + 1].                                    *)
(***************************************************************************)
EXTENDS Integers, Sequences, FiniteSets, TLC

VARIABLES
    source,          \* parse: the program text (`program: &str`), a sequence of chars
    i,               \* parse: index of the next char of the enumerate() loop
    ops,             \* parse: `ops`, the instructions pushed so far
    loop_stack,      \* parse: `loop_stack`, source indices of the pending '['
    parse_result,    \* parse: Pending while scanning, then Ok(ops) or Err(ParseError)
    program,         \* execute: `program: Vec<Op>`
    ip,              \* execute: the instruction pointer
    tape,            \* the tape: [kind, pos, data]
    input,           \* execute: the bytes the input source still holds
    output,          \* execute: the bytes the output sink has accepted
    last_io,         \* execute: what the last loop iteration's I/O call returned
    status,          \* execute: Running, Ok, IoError or Panic
    overflow_checks, \* the build: TRUE when arithmetic overflow panics (debug profile)
    faulty,          \* whether the input source and output sink can return Err
    budget           \* loop iterations of execute the run may still take (a bound)

vars == <<source, i, ops, loop_stack, parse_result, program, ip, tape, input,
          output, last_io, status, overflow_checks, faulty, budget>>

parseVars == <<source, i, ops, loop_stack, parse_result>>
execVars == <<program, ip, tape, input, output, last_io, status, overflow_checks, faulty,
              budget>>

(***************************************************************************)
(* Bounds of the model.                                                    *)
(***************************************************************************)
MaxLen == 4

MaxExecLen == 3

MaxCap == 3

MaxInput == 2

(***************************************************************************)
(* Program text.  "#" stands for every char that is none of the eight      *)
(* symbols (the `_ => {}` arm).                                            *)
(***************************************************************************)
Symbols == {"+", "-", "<", ">", ",", ".", "[", "]"}

Chars == Symbols \cup {"#"}

Sources(n) == UNION {[1..k -> Chars] : k \in 0..n}

(***************************************************************************)
(* enum Op.                                                                *)
(***************************************************************************)
Inc == [tag |-> "Inc"]

Dec == [tag |-> "Dec"]

Left == [tag |-> "Left"]

Right == [tag |-> "Right"]

Read == [tag |-> "Read"]

Write == [tag |-> "Write"]

LoopStart(target) == [tag |-> "LoopStart", target |-> target]

LoopEnd(target) == [tag |-> "LoopEnd", target |-> target]

(***************************************************************************)
(* enum ParseError and the Result of parse.                                *)
(***************************************************************************)
UnmatchedLoopStart(at) == [kind |-> "UnmatchedLoopStart", at |-> at]

UnmatchedLoopEnd(at) == [kind |-> "UnmatchedLoopEnd", at |-> at]

Pending == [tag |-> "Pending"]

ParseOk(o) == [tag |-> "Ok", ops |-> o]

ParseErr(e) == [tag |-> "Err", error |-> e]

(***************************************************************************)
(* parse.  ParseChar is one iteration of the `for (i, op)` loop on the     *)
(* state st = [ops, loop_stack, result]; ParseEnd is the code after it.    *)
(***************************************************************************)
SimpleOp(c) ==
    CASE c = "+" -> Inc
      [] c = "-" -> Dec
      [] c = "<" -> Left
      [] c = ">" -> Right
      [] c = "," -> Read
      [] c = "." -> Write

\* mutant: the '[' is not recorded
LoopStackPushNothing(stack, idx, oplen) == stack

LoopStackPush(stack, idx, oplen) == Append(stack, idx)

OpenPlaceholder == 0

\* mutant: the index in the instruction sequence instead of the text
UnmatchedCloseAtOpIndex(idx, oplen) == oplen

UnmatchedCloseAt(idx, oplen) == idx

\* mutant: a char that is no symbol pushes an instruction
ParseOtherPushes(st) == [st EXCEPT !.ops = Append(st.ops, Inc)]

\* the `_ => {}` arm
ParseOther(st) == st

ParseChar(st, c, idx) ==
    CASE c \in {"+", "-", "<", ">", ",", "."} ->
            [st EXCEPT !.ops = Append(st.ops, SimpleOp(c))]
      [] c = "[" ->
            [st EXCEPT !.loop_stack = LoopStackPush(st.loop_stack, idx, Len(st.ops)),
                       !.ops = Append(st.ops, LoopStart(OpenPlaceholder))]
      [] c = "]" ->
            IF st.loop_stack # <<>>
            THEN [st EXCEPT
                    !.loop_stack = SubSeq(st.loop_stack, 1, Len(st.loop_stack) - 1),
                    !.ops = Append(st.ops, LoopEnd(st.loop_stack[Len(st.loop_stack)]))]
            ELSE [st EXCEPT !.result =
                    ParseErr(UnmatchedLoopEnd(UnmatchedCloseAt(idx, Len(st.ops))))]
      [] OTHER -> ParseOther(st)

\* mutant: the last '[' pushed instead of the first
UnmatchedOpenAtTop(stack) == stack[Len(stack)]

UnmatchedOpenAt(stack) == stack[1]

ParseEnd(st) ==
    IF st.loop_stack = <<>>
    THEN ParseOk(st.ops)
    ELSE ParseErr(UnmatchedLoopStart(UnmatchedOpenAt(st.loop_stack)))

ParseStart == [ops |-> <<>>, loop_stack |-> <<>>, result |-> Pending]

RECURSIVE ParseFrom(_, _, _)
ParseFrom(st, text, idx) ==
    IF st.result # Pending THEN st.result
    ELSE IF idx = Len(text) THEN ParseEnd(st)
    ELSE ParseFrom(ParseChar(st, text[idx + 1], idx), text, idx + 1)

\* parse(text) as a function of the text
Parse(text) == ParseFrom(ParseStart, text, 0)

(***************************************************************************)
(* Machine integers.  A usize is kept as the representative r of its       *)
(* residue class modulo 2^UsizeBits that is nearest to 0: r >= 0 stands    *)
(* for r, r < 0 for 2^UsizeBits + r (so -1 is usize::MAX).  An overflowing *)
(* + or - panics in a build with overflow checks and wraps in one without. *)
(***************************************************************************)
UsizeBits == 64

Panic == [ok |-> FALSE]

Val(v) == [ok |-> TRUE, val |-> v]

RECURSIVE Pow2Mod(_, _)
\* 2^k modulo n
Pow2Mod(k, n) == IF k = 0 THEN 1 % n ELSE (2 * Pow2Mod(k - 1, n)) % n

\* usize `p - 1`
UsizeSub1(p, checks) == IF p = 0 /\ checks THEN Panic ELSE Val(p - 1)

\* usize `p + 1`
UsizeAdd1(p, checks) == IF p = -1 /\ checks THEN Panic ELSE Val(p + 1)

\* usize `p % n`
UsizeRem(p, n) ==
    IF n = 0 THEN Panic
    ELSE IF p >= 0 THEN Val(p % n)
    ELSE Val((Pow2Mod(UsizeBits, n) + n + (p % n)) % n)

\* u8 `b + 1`
U8Add1(b, checks) == IF b = 255 THEN (IF checks THEN Panic ELSE Val(0)) ELSE Val(b + 1)

\* u8 `b - 1`
U8Sub1(b, checks) == IF b = 0 THEN (IF checks THEN Panic ELSE Val(255)) ELSE Val(b - 1)

(***************************************************************************)
(* The tapes.  A tape is [kind, pos, data]; an operation yields            *)
(* [ok |-> TRUE, tape |-> t] (read: [ok |-> TRUE, val |-> b]) or Panic.    *)
(***************************************************************************)
TapeOk(t) == [ok |-> TRUE, tape |-> t]

Zeros(size) == [k \in 1..size |-> 0]

SimpleTapeNew(size) == [kind |-> "SimpleTape", pos |-> 0, data |-> Zeros(size)]

CircularTapeNew(size) == [kind |-> "CircularTape", pos |-> 0, data |-> Zeros(size)]

\* `self.data[self.pos]` is in bounds
InBounds(t) == t.pos >= 0 /\ t.pos < Len(t.data)

Cell(t) == t.data[t.pos + 1]

SimpleGoLeft(t, checks) ==
    LET r == UsizeSub1(t.pos, checks)
    IN IF r.ok THEN TapeOk([t EXCEPT !.pos = r.val]) ELSE Panic

SimpleGoRight(t, checks) ==
    LET r == UsizeAdd1(t.pos, checks)
    IN IF r.ok THEN TapeOk([t EXCEPT !.pos = r.val]) ELSE Panic

CircularGoLeft(t, checks) ==
    LET r == UsizeSub1(t.pos, checks)
    IN IF ~r.ok THEN Panic
       ELSE LET m == UsizeRem(r.val, Len(t.data))
            IN IF m.ok THEN TapeOk([t EXCEPT !.pos = m.val]) ELSE Panic

CircularGoRight(t, checks) ==
    LET r == UsizeAdd1(t.pos, checks)
    IN IF ~r.ok THEN Panic
       ELSE LET m == UsizeRem(r.val, Len(t.data))
            IN IF m.ok THEN TapeOk([t EXCEPT !.pos = m.val]) ELSE Panic

\* inc, dec, read and write have the same body in both impls
TapeInc(t, checks) ==
    IF ~InBounds(t) THEN Panic
    ELSE LET r == U8Add1(Cell(t), checks)
         IN IF r.ok THEN TapeOk([t EXCEPT !.data[t.pos + 1] = r.val]) ELSE Panic

TapeDec(t, checks) ==
    IF ~InBounds(t) THEN Panic
    ELSE LET r == U8Sub1(Cell(t), checks)
         IN IF r.ok THEN TapeOk([t EXCEPT !.data[t.pos + 1] = r.val]) ELSE Panic

TapeRead(t) == IF InBounds(t) THEN Val(Cell(t)) ELSE Panic

\* mutant: the byte goes to the first cell, not the one under the cursor
TapeWriteFirst(t, byte) ==
    IF InBounds(t) THEN TapeOk([t EXCEPT !.data[1] = byte]) ELSE Panic

TapeWrite(t, byte) ==
    IF InBounds(t) THEN TapeOk([t EXCEPT !.data[t.pos + 1] = byte]) ELSE Panic

\* the trait's dispatch
GoLeft(t, checks) ==
    IF t.kind = "SimpleTape" THEN SimpleGoLeft(t, checks) ELSE CircularGoLeft(t, checks)

GoRight(t, checks) ==
    IF t.kind = "SimpleTape" THEN SimpleGoRight(t, checks) ELSE CircularGoRight(t, checks)

NewTape(kind, size) ==
    IF kind = "SimpleTape" THEN SimpleTapeNew(size) ELSE CircularTapeNew(size)

TapeKinds == {"SimpleTape", "CircularTape"}

(***************************************************************************)
(* The parse state machine: one action per loop iteration, one for the     *)
(* code after the loop.                                                    *)
(***************************************************************************)
\* no bound on the number of loop iterations
Unlimited == 0 - 1

ExecIdle ==
    /\ program = <<>>
    /\ ip = 0
    /\ tape = [kind |-> "SimpleTape", pos |-> 0, data |-> <<>>]
    /\ input = <<>>
    /\ output = <<>>
    /\ last_io = "None"
    /\ status = "Idle"
    /\ overflow_checks = FALSE
    /\ faulty = FALSE
    /\ budget = Unlimited

ParseInit ==
    /\ source \in Sources(MaxLen)
    /\ i = 0
    /\ ops = <<>>
    /\ loop_stack = <<>>
    /\ parse_result = Pending
    /\ ExecIdle

ParseStep ==
    /\ parse_result = Pending
    /\ i < Len(source)
    /\ LET st == ParseChar([ops |-> ops, loop_stack |-> loop_stack, result |-> Pending],
                           source[i + 1], i)
       IN /\ ops' = st.ops
          /\ loop_stack' = st.loop_stack
          /\ parse_result' = st.result
    /\ i' = IF parse_result' = Pending THEN i + 1 ELSE i
    /\ UNCHANGED <<source, execVars>>

ParseFinish ==
    /\ parse_result = Pending
    /\ i = Len(source)
    /\ parse_result' = ParseEnd([ops |-> ops, loop_stack |-> loop_stack, result |-> Pending])
    /\ UNCHANGED <<source, i, ops, loop_stack, execVars>>

ParseNext == ParseStep \/ ParseFinish

SpecParse == ParseInit /\ [][ParseNext]_vars

(***************************************************************************)
(* execute.  One action per iteration of the `while ip < program.len()`    *)
(* loop (the match and the `ip += 1` after it) and one for the return.     *)
(* The input source holds the bytes of `input`; a read yields the next     *)
(* byte, Ok(0) when none is left, or Err when the source can fail.  The    *)
(* sink accepts the byte or, when it can fail, returns Err.                *)
(***************************************************************************)
InputBytes == {0, 1, 255}

Inputs(n) == UNION {[1..k -> InputBytes] : k \in 0..n}

ReadOutcomes == (IF input # <<>> THEN {"ReadByte"} ELSE {"ReadEof"})
                    \cup (IF faulty THEN {"ReadErr"} ELSE {})

WriteOutcomes == {"WriteOk"} \cup (IF faulty THEN {"WriteErr"} ELSE {})

IoOutcomes(op) ==
    CASE op.tag = "Read" -> ReadOutcomes
      [] op.tag = "Write" -> WriteOutcomes
      [] OTHER -> {"None"}

\* `if tape.read() == 0 { ip = loop_end; }`
LoopStartJump(cell, pc, loop_end) == IF cell = 0 THEN loop_end ELSE pc

\* mutant: the loop is re-entered on a zero cell
LoopEndJumpOnZero(cell, pc, loop_start) == IF cell = 0 THEN loop_start ELSE pc

\* `if tape.read() != 0 { ip = loop_start; }`
LoopEndJump(cell, pc, loop_start) == IF cell # 0 THEN loop_start ELSE pc

\* mutant: the sink stores the byte twice
SinkWriteTwice(out, byte) == Append(Append(out, byte), byte)

\* `output.write(&[byte; 1])` returned Ok
SinkWrite(out, byte) == Append(out, byte)

\* mutant: the source hands out its last byte first
ReadBufferLast(io) == IF io = "ReadByte" THEN input[Len(input)] ELSE 0

\* `let mut byte = [0u8; 1]` after `input.read(&mut byte)` returned Ok
ReadBuffer(io) == IF io = "ReadByte" THEN input[1] ELSE 0

\* the match arm of `op`: [ok, tape, ip, input, output, err], ok = FALSE for a panic
Dispatch(op, io) ==
    LET same == [ok |-> TRUE, tape |-> tape, ip |-> ip, input |-> input,
                 output |-> output, err |-> FALSE]
        moved(r) == IF r.ok THEN [same EXCEPT !.tape = r.tape] ELSE Panic
    IN CASE op.tag = "Inc" -> moved(TapeInc(tape, overflow_checks))
         [] op.tag = "Dec" -> moved(TapeDec(tape, overflow_checks))
         [] op.tag = "Left" -> moved(GoLeft(tape, overflow_checks))
         [] op.tag = "Right" -> moved(GoRight(tape, overflow_checks))
         [] op.tag = "Read" ->
                IF io = "ReadErr" THEN same
                ELSE LET w == moved(TapeWrite(tape, ReadBuffer(io)))
                     IN IF w.ok /\ io = "ReadByte" THEN [w EXCEPT !.input = Tail(input)]
                        ELSE w
         [] op.tag = "Write" ->
                LET r == TapeRead(tape)
                IN IF ~r.ok THEN Panic
                   ELSE IF io = "WriteErr" THEN [same EXCEPT !.err = TRUE]
                   ELSE [same EXCEPT !.output = SinkWrite(output, r.val)]
         [] op.tag = "LoopStart" ->
                LET r == TapeRead(tape)
                IN IF r.ok THEN [same EXCEPT !.ip = LoopStartJump(r.val, ip, op.target)]
                   ELSE Panic
         [] op.tag = "LoopEnd" ->
                LET r == TapeRead(tape)
                IN IF r.ok THEN [same EXCEPT !.ip = LoopEndJump(r.val, ip, op.target)]
                   ELSE Panic

ExecStep ==
    /\ status = "Running"
    /\ ip < Len(program)
    /\ budget # 0
    /\ budget' = IF budget = Unlimited THEN budget ELSE budget - 1
    /\ \E io \in IoOutcomes(program[ip + 1]) :
        LET r == Dispatch(program[ip + 1], io)
        IN /\ last_io' = io
           /\ IF ~r.ok
              THEN /\ status' = "Panic"
                   /\ input' = IF io = "ReadByte" THEN Tail(input) ELSE input
                   /\ UNCHANGED <<tape, ip, output>>
              ELSE /\ tape' = r.tape
                   /\ input' = r.input
                   /\ output' = r.output
                   /\ status' = IF r.err THEN "IoError" ELSE "Running"
                   /\ ip' = IF r.err THEN r.ip ELSE r.ip + 1
    /\ UNCHANGED <<parseVars, program, overflow_checks, faulty>>

ExecReturn ==
    /\ status = "Running"
    /\ ~(ip < Len(program))
    /\ status' = "Ok"
    /\ last_io' = "None"
    /\ UNCHANGED <<parseVars, program, ip, tape, input, output, overflow_checks, faulty,
                   budget>>

\* execute(parse(text).unwrap(), input, output, tape) is about to run
ExecStart(text, t, inp, checks, canfail) ==
    /\ Parse(text).tag = "Ok"
    /\ source = text
    /\ i = Len(text)
    /\ ops = Parse(text).ops
    /\ loop_stack = <<>>
    /\ parse_result = Parse(text)
    /\ program = Parse(text).ops
    /\ ip = 0
    /\ tape = t
    /\ input = inp
    /\ output = <<>>
    /\ last_io = "None"
    /\ status = "Running"
    /\ overflow_checks = checks
    /\ faulty = canfail

ExecInit ==
    \E text \in Sources(MaxExecLen), kind \in TapeKinds, size \in 1..MaxCap,
       inp \in Inputs(MaxInput), checks \in BOOLEAN :
        /\ ExecStart(text, NewTape(kind, size), inp, checks, TRUE)
        /\ budget = Unlimited

ExecNext == ExecStep \/ ExecReturn

Spec == ExecInit /\ [][ExecNext]_vars

(***************************************************************************)
(* The hello_world test: hello_world.bf on SimpleTape::new(1024) with a    *)
(* NullReader and a Vec<u8>, neither of which fails.  execute is a         *)
(* sequential loop, so a step that can be taken is taken.                  *)
(***************************************************************************)
TapeSize == 1024

HelloSource ==
    <<"+", "+", "+", "+", "+", "+", "+", "+", "[", ">", "+", "+", "+", "+",
      "[", ">", "+", "+", ">", "+", "+", "+", ">", "+", "+", "+", ">", "+",
      "<", "<", "<", "<", "-", "]", ">", "+", ">", "+", ">", "-", ">", ">",
      "+", "[", "<", "]", "<", "-", "]", ">", ">", ".", ">", "-", "-", "-",
      ".", "+", "+", "+", "+", "+", "+", "+", ".", ".", "+", "+", "+", ".",
      ">", ">", ".", "<", "-", ".", "<", ".", "+", "+", "+", ".", "-", "-",
      "-", "-", "-", "-", ".", "-", "-", "-", "-", "-", "-", "-", "-", ".",
      ">", ">", "+", ".", ">", "+", "+", ".">>

\* b"Hello World!\n"
HelloBytes == <<72, 101, 108, 108, 111, 32, 87, 111, 114, 108, 100, 33, 10>>

HelloInit ==
    \E checks \in BOOLEAN :
        /\ ExecStart(HelloSource, SimpleTapeNew(TapeSize), <<>>, checks, FALSE)
        /\ budget = Unlimited

SpecHello == HelloInit /\ [][ExecNext]_vars /\ WF_vars(ExecNext)

(***************************************************************************)
(* Bracket structure of a text, defined by counting and not by the         *)
(* parser's stack.  Positions are 0-based.                                 *)
(***************************************************************************)
RECURSIVE Depth(_, _)
\* number of '[' minus number of ']' among the first k chars of text
Depth(text, k) ==
    IF k = 0 THEN 0
    ELSE Depth(text, k - 1) + (CASE text[k] = "[" -> 1 [] text[k] = "]" -> -1 [] OTHER -> 0)

WellNested(text) ==
    /\ \A k \in 0..Len(text) : Depth(text, k) >= 0
    /\ Depth(text, Len(text)) = 0

OnlySymbols(text) == \A k \in 1..Len(text) : text[k] \in Symbols

\* the ']' at position q closes the '[' at position p
Matches(text, p, q) ==
    /\ p < q
    /\ text[p + 1] = "["
    /\ text[q + 1] = "]"
    /\ Depth(text, q + 1) = Depth(text, p)
    /\ \A k \in (p + 1)..q : Depth(text, k) > Depth(text, p)

HasUnmatchedClose(text) == \E k \in 1..Len(text) : Depth(text, k) < 0

FirstUnmatchedClose(text) ==
    (CHOOSE k \in 1..Len(text) :
        /\ Depth(text, k) < 0
        /\ \A j \in 1..(k - 1) : Depth(text, j) >= 0) - 1

UnmatchedOpens(text) ==
    {p \in 0..(Len(text) - 1) :
        /\ text[p + 1] = "["
        /\ ~ \E q \in 0..(Len(text) - 1) : Matches(text, p, q)}

Min(S) == CHOOSE x \in S : \A y \in S : x <= y

\* the same structure on an instruction sequence
OpBracket(o) == CASE o.tag = "LoopStart" -> "[" [] o.tag = "LoopEnd" -> "]" [] OTHER -> "+"

OpText(prog) == [k \in 1..Len(prog) |-> OpBracket(prog[k])]

ParseDone == parse_result # Pending

(***************************************************************************)
(* C1: for every text made only of the eight symbols with well-nested      *)
(* brackets, parse succeeds and every LoopStart at position p with target  *)
(* t has a LoopEnd at position t whose own target is p.                    *)
(***************************************************************************)
MutualTargets(prog) ==
    \A p \in 0..(Len(prog) - 1) :
        prog[p + 1].tag = "LoopStart" =>
            LET t == prog[p + 1].target
            IN /\ t \in 0..(Len(prog) - 1)
               /\ prog[t + 1].tag = "LoopEnd"
               /\ prog[t + 1].target = p

C1_LoopTargetsMutual ==
    (ParseDone /\ OnlySymbols(source) /\ WellNested(source)) =>
        /\ parse_result.tag = "Ok"
        /\ MutualTargets(parse_result.ops)

(***************************************************************************)
(* Helpers of the claims about execute.                                    *)
(***************************************************************************)
Fetching == status = "Running" /\ ip < Len(program)

CurrentOp == program[ip + 1]

\* the index of the LoopEnd that closes the LoopStart at index p
MatchingEnd(prog, p) == CHOOSE q \in 0..(Len(prog) - 1) : Matches(OpText(prog), p, q)

\* the text is `[X]` with X one of the six non-bracket instructions
SingleLoop(text) ==
    /\ Len(text) = 3
    /\ text[1] = "["
    /\ text[2] \in Symbols \ {"[", "]"}
    /\ text[3] = "]"

(***************************************************************************)
(* C2: when execute reaches a LoopStart while the current cell is zero,    *)
(* the next instruction executed is the one right after the matching       *)
(* LoopEnd; executing `[X]` from a zero cell produces no output and leaves *)
(* the tape as it was constructed.                                         *)
(***************************************************************************)
C2_LoopSkip ==
    [][/\ (Fetching /\ CurrentOp.tag = "LoopStart" /\ InBounds(tape) /\ Cell(tape) = 0) =>
            /\ status' = "Running"
            /\ ip' = MatchingEnd(program, ip) + 1
            /\ tape' = tape
            /\ output' = output
       /\ (SingleLoop(source) /\ status' = "Ok") =>
            /\ output' = <<>>
            /\ tape' = NewTape(tape.kind, Len(tape.data))]_vars

(***************************************************************************)
(* C3: a Read executed when the input source is exhausted leaves the       *)
(* current cell as it was, whatever its value, returns no error and        *)
(* execution goes on with the next instruction.                            *)
(***************************************************************************)
C3_ReadOnEofKeepsCell ==
    [][(Fetching /\ CurrentOp.tag = "Read" /\ input = <<>> /\ InBounds(tape)
            /\ last_io' = "ReadEof") =>
            /\ status' = "Running"
            /\ ip' = ip + 1
            /\ tape' = tape]_vars

(***************************************************************************)
(* C4: an I/O failure of the input source during Read or of the output     *)
(* sink during Write aborts execution at once: execute returns the error.  *)
(***************************************************************************)
C4_IoFailureAborts == last_io \in {"ReadErr", "WriteErr"} => status = "IoError"

(***************************************************************************)
(* C5: executing the parsed Hello World program with an empty input on a   *)
(* 1024-cell SimpleTape terminates without error with the output           *)
(* "Hello World!\n".                                                       *)
(***************************************************************************)
C5_HelloWorld == <>(status = "Ok" /\ output = HelloBytes)

\* the run has returned after writing thirteen bytes from beyond cell 0
C5_Witness ==
    /\ source = HelloSource
    /\ status = "Ok"
    /\ Len(output) = 13
    /\ tape.pos > 0
    /\ Len(tape.data) = TapeSize

(***************************************************************************)
(* C6: Inc on a cell holding 255 yields 0 and Dec on a cell holding 0      *)
(* yields 255, without failing; on any other value Inc adds 1 and Dec      *)
(* subtracts 1.  On both tapes.                                            *)
(***************************************************************************)
C6_CellArithmeticWraps ==
    [][(Fetching /\ InBounds(tape)) =>
            /\ CurrentOp.tag = "Inc" =>
                    /\ status' = "Running"
                    /\ tape' = [tape EXCEPT !.data[tape.pos + 1] = (Cell(tape) + 1) % 256]
            /\ CurrentOp.tag = "Dec" =>
                    /\ status' = "Running"
                    /\ tape' = [tape EXCEPT !.data[tape.pos + 1] = (Cell(tape) + 255) % 256]]_vars

(***************************************************************************)
(* C7: on the SimpleTape a Left at cursor 0 or a Right at cursor           *)
(* capacity-1 is itself a failure that aborts execution; any other move    *)
(* keeps the cursor within 0..capacity-1.                                  *)
(***************************************************************************)
C7_BoundedTapeEdges ==
    [][(Fetching /\ tape.kind = "SimpleTape" /\ InBounds(tape)
            /\ CurrentOp.tag \in {"Left", "Right"}) =>
            IF \/ CurrentOp.tag = "Left" /\ tape.pos = 0
               \/ CurrentOp.tag = "Right" /\ tape.pos = Len(tape.data) - 1
            THEN status' = "Panic"
            ELSE status' = "Running" /\ InBounds(tape')]_vars

(***************************************************************************)
(* C8: on the CircularTape of any capacity >= 1, Left from cursor 0 lands  *)
(* on capacity-1, Right from capacity-1 lands on 0, and every other move   *)
(* changes the cursor by exactly 1.                                        *)
(***************************************************************************)
C8_CircularWrap ==
    [][(Fetching /\ tape.kind = "CircularTape" /\ CurrentOp.tag \in {"Left", "Right"}) =>
            /\ status' = "Running"
            /\ tape'.data = tape.data
            /\ tape'.pos =
                IF CurrentOp.tag = "Left"
                THEN (IF tape.pos = 0 THEN Len(tape.data) - 1 ELSE tape.pos - 1)
                ELSE (IF tape.pos = Len(tape.data) - 1 THEN 0 ELSE tape.pos + 1)]_vars

(***************************************************************************)
(* C9: when the first nesting violation of the text is a ']' with no       *)
(* pending '[', parse fails with UnmatchedLoopEnd carrying the offset of   *)
(* that ']' in the original text (comment chars counted), and the result   *)
(* holds no program.                                                       *)
(***************************************************************************)
C9_UnmatchedCloseOffset ==
    (ParseDone /\ HasUnmatchedClose(source)) =>
        parse_result = ParseErr(UnmatchedLoopEnd(FirstUnmatchedClose(source)))

\* an unmatched ']' that follows a comment char and an instruction
C9_Witness ==
    /\ ParseDone
    /\ HasUnmatchedClose(source)
    /\ FirstUnmatchedClose(source) >= 2
    /\ \E k \in 1..FirstUnmatchedClose(source) : source[k] = "#"
    /\ \E k \in 1..FirstUnmatchedClose(source) : source[k] \in Symbols

(***************************************************************************)
(* C10: when no ']' is unmatched and at least one '[' is never closed,     *)
(* parse fails with UnmatchedLoopStart carrying the offset of the earliest *)
(* unmatched '['.                                                          *)
(***************************************************************************)
C10_UnmatchedOpenOffset ==
    (ParseDone /\ ~HasUnmatchedClose(source) /\ Depth(source, Len(source)) > 0) =>
        parse_result = ParseErr(UnmatchedLoopStart(Min(UnmatchedOpens(source))))

\* two '[' are left open and the earliest one is not the first '[' of the text
C10_Witness ==
    /\ ParseDone
    /\ ~HasUnmatchedClose(source)
    /\ Cardinality(UnmatchedOpens(source)) >= 2
    /\ \E p \in 0..(Len(source) - 1) : source[p + 1] = "[" /\ p < Min(UnmatchedOpens(source))
    /\ parse_result.tag = "Err"

(***************************************************************************)
(* C11: chars that are none of the eight symbols never affect parse:       *)
(* parse(S) succeeds exactly when parse(Strip(S)) succeeds, Strip(S) being *)
(* S without those chars, and on success both instruction sequences have   *)
(* the same length.                                                        *)
(***************************************************************************)
Strip(text) == SelectSeq(text, LAMBDA c : c \in Symbols)

C11_CommentsIgnored ==
    ParseDone =>
        LET stripped == Parse(Strip(source))
        IN /\ (parse_result.tag = "Ok") <=> (stripped.tag = "Ok")
           /\ parse_result.tag = "Ok" => Len(parse_result.ops) = Len(stripped.ops)

\* a text with a comment char before and inside a loop has been parsed
C11_Witness ==
    /\ ParseDone
    /\ parse_result.tag = "Ok"
    /\ Len(parse_result.ops) = 2
    /\ Len(source) = 4
    /\ source[1] = "#"
    /\ source[2] = "["
    /\ source[3] = "#"

(***************************************************************************)
(* A second set of runs of execute, on longer texts over fewer chars, so   *)
(* that loops preceded by comment chars are entered with a non-zero cell.  *)
(***************************************************************************)
MaxLoopLen == 5

LoopChars == {"+", "#", "[", "]"}

LoopSources(n) == UNION {[1..k -> LoopChars] : k \in 0..n}

LoopsInit ==
    \E text \in LoopSources(MaxLoopLen), kind \in TapeKinds, checks \in BOOLEAN :
        /\ ExecStart(text, NewTape(kind, 1), <<>>, checks, FALSE)
        /\ budget = Unlimited

SpecLoops == LoopsInit /\ [][ExecNext]_vars

(***************************************************************************)
(* C12: the only terminal condition of execute is ip = program.len(): in   *)
(* every state of an execution of a parsed program ip is in                *)
(* 0..program.len(), and when execute returns Ok ip is program.len().      *)
(* (A fetch happens only under the loop's guard ip < program.len().)       *)
(***************************************************************************)
C12_PointerWithinProgram ==
    status \in {"Running", "Ok", "IoError", "Panic"} =>
        /\ ip \in 0..Len(program)
        /\ status = "Ok" => ip = Len(program)

(***************************************************************************)
(* C13: for every well-nested text, comment chars included, the target of  *)
(* each LoopEnd is the index in the instruction sequence of its matching   *)
(* LoopStart.                                                              *)
(***************************************************************************)
\* the index of the LoopStart that the LoopEnd at index q closes
MatchingStart(prog, q) == CHOOSE p \in 0..(Len(prog) - 1) : Matches(OpText(prog), p, q)

C13_LoopEndTargetsOpIndex ==
    (ParseDone /\ WellNested(source)) =>
        /\ parse_result.tag = "Ok"
        /\ \A q \in 0..(Len(parse_result.ops) - 1) :
                parse_result.ops[q + 1].tag = "LoopEnd" =>
                    parse_result.ops[q + 1].target = MatchingStart(parse_result.ops, q)

(***************************************************************************)
(* C14: when execute reaches a LoopEnd while the current cell is non-zero, *)
(* the next instruction executed is the one right after the matching       *)
(* LoopStart; when the cell is zero it is the one right after the LoopEnd. *)
(* Neither changes the tape or does I/O.                                   *)
(***************************************************************************)
C14_LoopReentry ==
    [][(Fetching /\ CurrentOp.tag = "LoopEnd" /\ InBounds(tape)) =>
            /\ status' = "Running"
            /\ ip' = IF Cell(tape) # 0 THEN MatchingStart(program, ip) + 1 ELSE ip + 1
            /\ tape' = tape
            /\ input' = input
            /\ output' = output
            /\ last_io' = "None"]_vars

(***************************************************************************)
(* A third set of runs of execute: the first MaxIoSteps loop iterations on *)
(* every text of up to MaxIoLen chars, on tapes of one and two cells, with *)
(* an empty input source and two two-byte ones.                            *)
(***************************************************************************)
MaxIoLen == 3

MaxIoSteps == 6

IoCaps == {1, 2}

IoInputs == {<<>>, <<1, 255>>, <<255, 0>>}

IoInit ==
    \E text \in Sources(MaxIoLen), kind \in TapeKinds, size \in IoCaps,
       inp \in IoInputs, checks \in BOOLEAN :
        /\ ExecStart(text, NewTape(kind, size), inp, checks, TRUE)
        /\ budget = MaxIoSteps

SpecIo == IoInit /\ [][ExecNext]_vars

(***************************************************************************)
(* C15: output is produced only by Write: each Write that execute          *)
(* completes appends exactly one byte, the current cell's value, to the    *)
(* output and leaves the tape unchanged; every other step leaves the       *)
(* output unchanged.                                                       *)
(***************************************************************************)
C15_OutputOnlyByWrite ==
    [][IF Fetching /\ CurrentOp.tag = "Write" /\ status' = "Running"
       THEN /\ output' = Append(output, Cell(tape))
            /\ tape' = tape
            /\ ip' = ip + 1
       ELSE output' = output]_vars

\* two different bytes have been written, the second from another cell value
C15_Witness ==
    /\ status = "Ok"
    /\ Len(output) = 2
    /\ output[1] # output[2]
    /\ output[2] = Cell(tape)

(***************************************************************************)
(* C16: each Read that gets a byte consumes exactly the next byte of the   *)
(* input and stores it in the current cell, leaving the cursor and every   *)
(* other cell unchanged; no other instruction consumes input.              *)
(***************************************************************************)
C16_ReadConsumesNextByte ==
    [][IF Fetching /\ CurrentOp.tag = "Read"
       THEN (last_io' = "ReadByte" /\ InBounds(tape)) =>
                /\ input' = Tail(input)
                /\ tape' = [tape EXCEPT !.data[tape.pos + 1] = input[1]]
                /\ status' = "Running"
                /\ ip' = ip + 1
       ELSE input' = input]_vars

\* two different bytes have been read in order into two cells
C16_Witness ==
    /\ status = "Ok"
    /\ source = <<",", ">", ",">>
    /\ input = <<>>
    /\ Len(tape.data) >= 2
    /\ tape.data[1] = 1
    /\ tape.data[2] = 255

(***************************************************************************)
(* C17: tape operations touch at most the cell under the cursor: inc, dec  *)
(* and write (Op::Inc, Op::Dec, Op::Read) leave the cursor and every other *)
(* cell unchanged, read (Op::Write and the two loop instructions) changes  *)
(* nothing, go_left and go_right change no cell.  On both tapes.           *)
(***************************************************************************)
C17_OneCellTouched ==
    [][(Fetching /\ status' = "Running") =>
            /\ tape'.kind = tape.kind
            /\ Len(tape'.data) = Len(tape.data)
            /\ CurrentOp.tag \in {"Inc", "Dec", "Read"} =>
                    /\ tape'.pos = tape.pos
                    /\ \A k \in 1..Len(tape.data) :
                            k # tape.pos + 1 => tape'.data[k] = tape.data[k]
            /\ CurrentOp.tag \in {"Write", "LoopStart", "LoopEnd"} => tape' = tape
            /\ CurrentOp.tag \in {"Left", "Right"} => tape'.data = tape.data]_vars

\* the second cell has been incremented while the first holds a non-zero value
C17_Witness ==
    /\ status = "Ok"
    /\ source = <<"+", ">", "+">>
    /\ tape.pos = 1
    /\ tape.data = <<1, 1>>

(***************************************************************************)
(* C18: CircularTape movement never fails: from a fresh CircularTape of    *)
(* capacity >= 1, after any sequence of operations the cursor is in        *)
(* 0..capacity-1 and no go_left or go_right raises a failure.              *)
(***************************************************************************)
C18_CircularMoveNeverFails ==
    /\ tape.kind = "CircularTape" => InBounds(tape)
    /\ (tape.kind = "CircularTape" /\ status = "Panic") =>
            program[ip + 1].tag \notin {"Left", "Right"}

(***************************************************************************)
(* C19: parse is total and its outcome is decided by bracket balance       *)
(* alone: it ends with exactly one of Ok, UnmatchedLoopEnd and             *)
(* UnmatchedLoopStart, with Ok exactly when every prefix of the text has   *)
(* at least as many '[' as ']' and the whole text equally many; during     *)
(* the scan the depth of loop_stack is the number of '[' seen minus the    *)
(* number of ']' seen.                                                     *)
(***************************************************************************)
C19_ParseDecidedByBalance ==
    /\ parse_result = Pending =>
            /\ i \in 0..Len(source)
            /\ Len(loop_stack) = Depth(source, i)
            /\ ENABLED ParseNext
    /\ ParseDone =>
            /\ parse_result.tag \in {"Ok", "Err"}
            /\ parse_result.tag = "Ok" <=> WellNested(source)
            /\ parse_result.tag = "Err" =>
                    parse_result.error.kind \in {"UnmatchedLoopStart", "UnmatchedLoopEnd"}
            /\ (parse_result.tag = "Err" /\ parse_result.error.kind = "UnmatchedLoopEnd")
                    <=> HasUnmatchedClose(source)

\* mid-scan, after an opened and closed loop and a comment char, one '[' pending
C19_Witness ==
    /\ parse_result = Pending
    /\ i = 4
    /\ source = <<"[", "]", "#", "[">>
    /\ Len(loop_stack) = 1

====
